---- MODULE Spec2Model ----
(***************************************************************************)
(* MultiHeadedAttention::operator() of                                     *)
(* turbo_transformers/layers/multi_headed_attention.cpp as a state machine.*)
(*                                                                         *)
(* Tensors are abstracted to liveness, shape and one symbolic value per    *)
(* position of the sequence axis; kernels build symbolic terms, so that    *)
(* "equal contents" means "computed the same way from the same inputs".    *)
(***************************************************************************)
EXTENDS Integers, Sequences, FiniteSets, TLC

VARIABLES
  lock,       \* mutex_: 0 when free, else the thread that holds it
  pc,         \* per thread: position inside operator()
  args,       \* per thread: the arguments of the call in flight
  loc,        \* per thread: the locals of the call in flight
  cache,      \* the caller's four cache tensors
  output,     \* per thread: the tensor output points at
  att_score,  \* per thread: the tensor the caller's att_score points at
  heap,       \* the pointers whose new-allocated handle is still outstanding
  last        \* the outcome of the call that ended last, until the lock is taken again

vars == <<lock, pc, args, loc, cache, output, att_score, heap, last>>

-----------------------------------------------------------------------------
(* Bounds *)

NThreads == 2      \* threads that may call the operator concurrently
MaxQ == 2          \* longest query
MaxSeq == 2        \* longest self cache

(* Program configuration *)

num_attention_heads_ == 2

Threads == 1..NThreads
Tokens == {"a", "b"}
CacheKeys == {"memory_keys", "memory_values", "self_keys", "self_values"}

-----------------------------------------------------------------------------
(* Tensor handle *)

NullT == [live |-> FALSE, shape |-> <<>>, data |-> <<>>]

Tensor(shape, data) == [live |-> TRUE, shape |-> shape, data |-> data]

is_null(t) == ~t.live

\* contents no kernel has written, and contents left by an earlier use
Unwritten == <<"stale">>
Earlier == <<"old">>

Stale(n) == [i \in 1..n |-> Unwritten]

\* the axis that holds the sequence: axis 1 of [B,S,hidden], axis 2 of [B,H,S,D]
SeqLen(shape) == IF Len(shape) = 3 THEN shape[2] ELSE shape[3]

\* Tensor::Reshape: same shape keeps the contents, a new shape leaves them
\* unspecified until a kernel writes them
Reshape(t, shape) ==
  IF t.live /\ t.shape = shape THEN t ELSE Tensor(shape, Stale(SeqLen(shape)))

-----------------------------------------------------------------------------
(* Kernel facade: each kernel builds the term it computes, per position *)

LayerNorm(x) == <<"LN", x>>

MatMul(x, w, trans) == <<"MM", w, trans, x>>

AddBiasTransposeForScore(x, b) == <<"ABT", b, x>>

\* part 0, 1, 2 of the fused projection is Q, K, V
SplitAddBiasTransposeForScore(x, part) == <<"SABT", part, x>>

\* Concat on the sequence axis; the other axes have to agree
ConcatOk(a, b) ==
  /\ Len(a.shape) = 4
  /\ \A i \in {1, 2, 4} : a.shape[i] = b.shape[i]

Concat(a, b) ==
  Tensor(<<b.shape[1], b.shape[2], a.shape[3] + b.shape[3], b.shape[4]>>,
         a.data \o b.data)

\* core::Copy into a tensor already reshaped to the source's shape
Copy(src, dst) == [dst EXCEPT !.data = src.data]

\* one row of Q.K^T scaled
BatchMatMulQK(q, k) == <<"QK", q, k>>

ApplyMaskAndSoftmax(row, mask) == <<"SM", mask, row>>

\* one row of att_score.V
BatchMatMulAV(row, v) == <<"AV", row, v>>

AddBias(x) == <<"AB", x>>

AddBiasLayerNorm(input, x) == <<"ABLN", input, x>>

AddInputBias(x, input) == <<"AIB", input, x>>

-----------------------------------------------------------------------------
(* Arguments of a call *)

\* an input tensor: always live; dev is its device context
Input(shape, dev, data) == [shape |-> shape, dev |-> dev, data |-> data]

NoInput == Input(<<>>, 0, <<>>)

\* keys: the keys of layer_cache, each pointing at the caller's tensor of that
\* name; out, att: the tensors output and att_score point at (att_null: att_score
\* is nullptr)
NoArgs ==
  [attn_type |-> "none", key |-> NoInput, value |-> NoInput, query |-> NoInput,
   mask |-> "m0", out |-> NullT, att_null |-> FALSE, att |-> NullT, keys |-> {},
   pre_layernorm |-> FALSE, post_layernorm |-> FALSE,
   post_add_input |-> FALSE, is_trans_weight |-> FALSE]

\* what the caller passes as output and att_score: fresh tensors, or tensors
\* that hold an earlier result
Sinks ==
  { [out |-> NullT, att_null |-> TRUE, att |-> NullT],
    [out |-> NullT, att_null |-> FALSE, att |-> NullT],
    [out |-> Tensor(<<1, 1, 4>>, <<Earlier>>), att_null |-> FALSE,
     att |-> Tensor(<<1, 2, 1, 1>>, <<Earlier>>)] }

Flags == [pre_layernorm : BOOLEAN, post_layernorm : BOOLEAN,
          post_add_input : BOOLEAN, is_trans_weight : BOOLEAN]

PlainFlags == { f \in Flags : ~f.pre_layernorm /\ ~f.post_layernorm
                               /\ ~f.post_add_input /\ ~f.is_trans_weight }

MakeArgs(type, k, v, q, mask, sink, keys, f) ==
  [attn_type |-> type, key |-> k, value |-> v, query |-> q, mask |-> mask,
   out |-> sink.out, att_null |-> sink.att_null, att |-> sink.att, keys |-> keys,
   pre_layernorm |-> f.pre_layernorm, post_layernorm |-> f.post_layernorm,
   post_add_input |-> f.post_add_input, is_trans_weight |-> f.is_trans_weight]

Queries(batch, hidden) ==
  UNION { { Input(<<batch, n, hidden>>, 0, d) : d \in [1..n -> Tokens] } : n \in 1..MaxQ }

\* a source sequence of n copies of token c
Source(batch, n, hidden, dev, c) == Input(<<batch, n, hidden>>, dev, [i \in 1..n |-> c])

-----------------------------------------------------------------------------
(* Invariants guard, lines 48-73 and 118-127 *)

\* mutant: the batch sizes of key and value are not compared
GuardOutcome_NoBatchCheck(a) ==
  IF Len(a.key.shape) # 3 \/ Len(a.value.shape) # 3 \/ Len(a.query.shape) # 3
    THEN "EnforceNotMet"
  ELSE IF a.attn_type \notin {"context", "self"}
    THEN "Throw"
  ELSE IF a.attn_type = "context"
          /\ (a.query.dev # a.value.dev \/ a.query.dev # a.key.dev)
    THEN "EnforceNotMet"
  ELSE "ok"

GuardOutcome(a) ==
  IF Len(a.key.shape) # 3 \/ Len(a.value.shape) # 3 \/ Len(a.query.shape) # 3
    THEN "EnforceNotMet"
  ELSE IF a.key.shape[1] # a.value.shape[1]
    THEN "EnforceNotMet"
  ELSE IF a.attn_type \notin {"context", "self"}
    THEN "Throw"
  ELSE IF a.attn_type = "context"
          /\ (a.query.dev # a.value.dev \/ a.query.dev # a.key.dev)
    THEN "EnforceNotMet"
  ELSE "ok"

batch_size(a) == a.query.shape[1]
query_seq_length(a) == a.query.shape[2]
hidden_size(a) == a.query.shape[3]
size_per_head(a) == hidden_size(a) \div num_attention_heads_

-----------------------------------------------------------------------------
(* KV-cache binding, lines 94-113 *)

layer_cache_not_none(a) == Cardinality(a.keys) > 0

not_none(a, c, k) == layer_cache_not_none(a) /\ k \in a.keys /\ ~is_null(c[k])

\* mutant: the memory cache is never seen as live
memory_not_none_Never(a, c) == FALSE

memory_not_none(a, c) ==
  not_none(a, c, "memory_values") /\ not_none(a, c, "memory_keys")

-----------------------------------------------------------------------------
(* Writes through layer_cache[key], lines 191-200 and 288-296 *)

\* op = <<what, key>>; tgt[key] is the tensor the slot is to receive.
\* layer_cache is a by-value map: operator[] on a key the caller did not pass
\* inserts a null pointer, and the write goes through it (nothing of the
\* caller's is written).
CacheOp(c, op, keys, tgt) ==
  IF op[2] \notin keys THEN c
  ELSE IF op[1] = "reshape"
    THEN [c EXCEPT ![op[2]] = Reshape(@, tgt[op[2]].shape)]
    ELSE [c EXCEPT ![op[2]] = Copy(tgt[op[2]], @)]

RECURSIVE CacheOps(_, _, _, _, _)
CacheOps(c, ops, n, keys, tgt) ==
  IF n = 0 THEN c
  ELSE CacheOp(CacheOps(c, ops, n - 1, keys, tgt), ops[n], keys, tgt)

\* index of the first op that dereferences a null pointer, 0 when none does
FirstNullDeref(ops, keys) ==
  LET bad == { i \in 1..Len(ops) : ops[i][2] \notin keys }
  IN IF bad = {} THEN 0 ELSE CHOOSE i \in bad : \A j \in bad : i <= j

\* Runs ops with a kernel failure after n of them (n = Len(ops): none).
\* A null dereference is undefined behaviour: ub = "crash" ends the process
\* there, ub = "wild" lets the call run on.
RunCacheOps(c, ops, n, keys, tgt, ub) ==
  LET u == FirstNullDeref(ops, keys)
  IN IF u > 0 /\ n >= u - 1 /\ ub = "crash"
       THEN [status |-> "crash", ub |-> TRUE,
             cache |-> CacheOps(c, ops, u - 1, keys, tgt)]
       ELSE [status |-> IF n = Len(ops) THEN "ok" ELSE "KernelFailure",
             ub |-> u > 0 /\ n >= u,
             cache |-> CacheOps(c, ops, n, keys, tgt)]

-----------------------------------------------------------------------------
(* Projection stage, context mode, lines 129-225 *)

ContextQ(a) ==
  Tensor(<<batch_size(a), num_attention_heads_, query_seq_length(a), size_per_head(a)>>,
         [i \in 1..Len(a.query.data) |->
            AddBiasTransposeForScore(
              MatMul(IF a.pre_layernorm THEN LayerNorm(a.query.data[i])
                                        ELSE a.query.data[i],
                     "q_weight", a.is_trans_weight),
              "q_bias")])

\* k_out1/v_out1 are shaped by the key's length; src is key_tensor or value_tensor
ContextKV(a, src, w, b) ==
  Tensor(<<batch_size(a), num_attention_heads_, a.key.shape[2], size_per_head(a)>>,
         [i \in 1..a.key.shape[2] |->
            IF i <= Len(src.data)
              THEN AddBiasTransposeForScore(MatMul(src.data[i], w, a.is_trans_weight), b)
              ELSE Unwritten])

\* mutant: the fill also reshapes self_keys
ContextFillOps_AlsoSelf ==
  << <<"reshape", "memory_keys">>, <<"reshape", "memory_values">>,
     <<"write", "memory_values">>, <<"write", "memory_keys">>,
     <<"reshape", "self_keys">> >>

ContextFillOps ==
  << <<"reshape", "memory_keys">>, <<"reshape", "memory_values">>,
     <<"write", "memory_values">>, <<"write", "memory_keys">> >>

\* the failure points of the stage: n cache writes done, then a kernel throws
ContextFails(a, c) ==
  IF ~memory_not_none(a, c) /\ layer_cache_not_none(a)
    THEN 0..Len(ContextFillOps) ELSE {0, Len(ContextFillOps)}

\* mutant: there is no cache-hit branch, a live memory pair is filled again
ContextProject_NoHit(a, c, n, ub) ==
  LET q == ContextQ(a)
      k == ContextKV(a, a.key, "k_weight", "k_bias")
      v == ContextKV(a, a.value, "v_weight", "v_bias")
      tgt == [x \in CacheKeys |-> IF x = "memory_keys" THEN k ELSE v]
      none == [status |-> "ok", ub |-> FALSE, cache |-> c, q |-> q, k |-> k, v |-> v,
               new |-> {}]
  IN IF n = 0 THEN [none EXCEPT !.status = "KernelFailure"]
     ELSE IF layer_cache_not_none(a)
       THEN LET r == RunCacheOps(c, ContextFillOps, n, a.keys, tgt, ub)
            IN [none EXCEPT !.status = r.status, !.ub = r.ub, !.cache = r.cache,
                  !.k = IF "memory_keys" \in a.keys THEN r.cache["memory_keys"] ELSE k,
                  !.v = IF "memory_values" \in a.keys THEN r.cache["memory_values"] ELSE v]
     ELSE none

ContextProject(a, c, n, ub) ==
  LET q == ContextQ(a)
      k == ContextKV(a, a.key, "k_weight", "k_bias")
      v == ContextKV(a, a.value, "v_weight", "v_bias")
      tgt == [x \in CacheKeys |-> IF x = "memory_keys" THEN k ELSE v]
      none == [status |-> "ok", ub |-> FALSE, cache |-> c, q |-> q, k |-> k, v |-> v,
               new |-> {}]
  IN IF n = 0 THEN [none EXCEPT !.status = "KernelFailure"]
     ELSE IF memory_not_none(a, c)
       THEN [none EXCEPT !.k = c["memory_keys"], !.v = c["memory_values"]]
     ELSE IF layer_cache_not_none(a)
       THEN LET r == RunCacheOps(c, ContextFillOps, n, a.keys, tgt, ub)
            IN [none EXCEPT !.status = r.status, !.ub = r.ub, !.cache = r.cache,
                  !.k = IF "memory_keys" \in a.keys THEN r.cache["memory_keys"] ELSE k,
                  !.v = IF "memory_values" \in a.keys THEN r.cache["memory_values"] ELSE v]
     ELSE none

-----------------------------------------------------------------------------
(* Projection stage, self mode, lines 227-297 *)

\* qkv_out2[part]
SelfQKV(a, part) ==
  Tensor(<<batch_size(a), num_attention_heads_, query_seq_length(a), size_per_head(a)>>,
         [i \in 1..Len(a.query.data) |->
            SplitAddBiasTransposeForScore(
              MatMul(IF a.pre_layernorm THEN LayerNorm(a.query.data[i])
                                        ELSE a.query.data[i],
                     "qkv_weight", a.is_trans_weight),
              part)])

\* mutant: the new keys are put in front of the cached ones
SelfK_Prepend(a, c) ==
  IF not_none(a, c, "self_keys")
    THEN Concat(SelfQKV(a, 1), c["self_keys"]) ELSE SelfQKV(a, 1)

SelfK(a, c) ==
  IF not_none(a, c, "self_keys")
    THEN Concat(c["self_keys"], SelfQKV(a, 1)) ELSE SelfQKV(a, 1)

\* mutant: the cached values are left out of V
SelfV_Fresh(a, c) == SelfQKV(a, 2)

SelfV(a, c) ==
  IF not_none(a, c, "self_values")
    THEN Concat(c["self_values"], SelfQKV(a, 2)) ELSE SelfQKV(a, 2)

SelfWritebackOps ==
  << <<"reshape", "self_keys">>, <<"reshape", "self_values">>,
     <<"write", "self_keys">>, <<"write", "self_values">> >>

\* Failure points: 0 before q_ptr is allocated, 1 in the Concat of K, 2 in the
\* Concat of V, 3 + i after i writes of the writeback; 3 + Len(ops) is no failure.
SelfDone == 3 + Len(SelfWritebackOps)

SelfFails(a, c) ==
  LET kLive == not_none(a, c, "self_keys")
      vLive == not_none(a, c, "self_values")
      kBad == kLive /\ ~ConcatOk(c["self_keys"], SelfQKV(a, 1))
      vBad == vLive /\ ~ConcatOk(c["self_values"], SelfQKV(a, 2))
  IN {0} \cup (IF kLive THEN {1} ELSE {})
         \cup (IF vLive /\ ~kBad THEN {2} ELSE {})
         \cup (IF kBad \/ vBad THEN {}
               ELSE IF layer_cache_not_none(a) THEN 3..SelfDone ELSE {SelfDone})

\* the handles allocated with new by the time failure point n is reached
SelfNew(a, c, n) ==
  (IF n >= 1 THEN {"q_ptr"} ELSE {})
  \cup (IF n >= 2 /\ ~not_none(a, c, "self_keys") THEN {"k_ptr"} ELSE {})
  \cup (IF n >= 3 /\ ~not_none(a, c, "self_values") THEN {"v_ptr"} ELSE {})

SelfProject(a, c, n, ub) ==
  LET q == SelfQKV(a, 0)
      k == IF n >= 2 THEN SelfK(a, c) ELSE NullT
      v == IF n >= 3 THEN SelfV(a, c) ELSE NullT
      tgt == [x \in CacheKeys |-> IF x = "self_keys" THEN k ELSE v]
      none == [status |-> "ok", ub |-> FALSE, cache |-> c, q |-> q, k |-> k, v |-> v,
               new |-> SelfNew(a, c, n)]
  IN IF n < 3 THEN [none EXCEPT !.status = "KernelFailure"]
     ELSE IF layer_cache_not_none(a)
       THEN LET r == RunCacheOps(c, SelfWritebackOps, n - 3, a.keys, tgt, ub)
            IN [none EXCEPT !.status = r.status, !.ub = r.ub, !.cache = r.cache]
     ELSE none

-----------------------------------------------------------------------------
(* Scoring stage and output fusion, lines 313-402 *)

\* Failure points: n steps done, then a kernel throws.
\* 1 att_score allocated when the caller gave none, 2 att_score reshaped,
\* 3 scores written, 4 mask and softmax applied, 5 output reshaped,
\* 6 output projected, 7 bias fused and the call-scoped att_score deleted.
ScoreDone == 7

ScoreFails(a) == IF a.att_null THEN 0..ScoreDone ELSE (0..ScoreDone) \ {1}

Scores(a, l) ==
  [i \in 1..Len(l.q.data) |-> BatchMatMulQK(l.q.data[i], l.k.data)]

Softmaxed(a, l) ==
  [i \in 1..Len(l.q.data) |-> ApplyMaskAndSoftmax(Scores(a, l)[i], a.mask)]

\* self_attr_out after the context gather and TransposeForScore
Context(a, l) ==
  [i \in 1..Len(l.q.data) |-> BatchMatMulAV(Softmaxed(a, l)[i], l.v.data)]

Dense(a, l) ==
  [i \in 1..Len(l.q.data) |-> MatMul(Context(a, l)[i], "dense_weight", a.is_trans_weight)]

\* mutant: post_layernorm is looked at before post_add_input
Fused_LayerNormFirst(a, l) ==
  [i \in 1..Len(l.q.data) |->
     IF a.post_layernorm
       THEN AddBiasLayerNorm(a.query.data[i], Dense(a, l)[i])
       ELSE IF a.post_add_input
              THEN AddInputBias(Dense(a, l)[i], a.query.data[i])
              ELSE AddBias(Dense(a, l)[i])]

Fused(a, l) ==
  [i \in 1..Len(l.q.data) |->
     IF ~a.post_add_input
       THEN IF ~a.post_layernorm
              THEN AddBias(Dense(a, l)[i])
              ELSE AddBiasLayerNorm(a.query.data[i], Dense(a, l)[i])
       ELSE AddInputBias(Dense(a, l)[i], a.query.data[i])]

\* att is the tensor att_score points to: the caller's, or a fresh one
ScoreAtt(a, l, att, n) ==
  LET shape == <<batch_size(a), num_attention_heads_, query_seq_length(a), l.k.shape[3]>>
      reshaped == Reshape(IF a.att_null THEN NullT ELSE att, shape)
  IN IF n < 2 THEN att
     ELSE IF n = 2 THEN reshaped
     ELSE IF n = 3 THEN [reshaped EXCEPT !.data = Scores(a, l)]
     ELSE [reshaped EXCEPT !.data = Softmaxed(a, l)]

\* mutant: an output tensor that is already allocated keeps its shape
ScoreOutput_KeepShape(a, l, out, n) ==
  LET reshaped == IF out.live THEN out
                  ELSE Reshape(out, <<batch_size(a), query_seq_length(a), hidden_size(a)>>)
  IN IF n < 5 THEN out
     ELSE IF n = 5 THEN reshaped
     ELSE IF n = 6 THEN [reshaped EXCEPT !.data = Dense(a, l)]
     ELSE [reshaped EXCEPT !.data = Fused(a, l)]

ScoreOutput(a, l, out, n) ==
  LET reshaped == Reshape(out, <<batch_size(a), query_seq_length(a), hidden_size(a)>>)
  IN IF n < 5 THEN out
     ELSE IF n = 5 THEN reshaped
     ELSE IF n = 6 THEN [reshaped EXCEPT !.data = Dense(a, l)]
     ELSE [reshaped EXCEPT !.data = Fused(a, l)]

\* the call-scoped att_score is deleted on the last line only
ScoreNew(a, n) == IF a.att_null /\ n >= 1 /\ n < ScoreDone THEN {"att_score"} ELSE {}

\* a caller's att_score is written in place; without one the caller's is untouched
ScoreStage(a, l, out, att, n) ==
  [status |-> IF n = ScoreDone THEN "ok" ELSE "KernelFailure",
   output |-> ScoreOutput(a, l, out, n),
   att |-> IF a.att_null THEN att ELSE ScoreAtt(a, l, att, n),
   new |-> ScoreNew(a, n)]

-----------------------------------------------------------------------------
(* The calls the callers make *)

\* decoder self steps (key = value = query); the map holds any of the self
\* keys, with or without the memory pair
ArgsSelf ==
  { MakeArgs("self", q, q, q, "m0", s, ks \cup m, f) :
      q \in Queries(1, 4), s \in Sinks, ks \in SUBSET {"self_keys", "self_values"},
      m \in {{}, {"memory_keys", "memory_values"}}, f \in PlainFlags }

\* cross steps over a source sequence (key = value); the map holds any of the
\* memory keys, with or without the self pair
ArgsContext ==
  { MakeArgs("context", src, src, q, "m0", s, ks \cup m, f) :
      q \in { Source(1, n, 4, 0, c) : n \in 1..MaxQ, c \in Tokens },
      src \in { Source(1, n, 4, 0, c) : n \in 1..2, c \in Tokens },
      s \in Sinks, ks \in SUBSET {"memory_keys", "memory_values"},
      m \in {{}, {"self_keys", "self_values"}}, f \in PlainFlags }

\* Calls that may break the preconditions: a rank-2 input, batch sizes 1 and 2,
\* a hidden size that the heads divide (4) or not (5), an input on another
\* device, an unknown attn_type
Shapes(hidden) == { <<1, 1, hidden>>, <<2, 1, hidden>>, <<1, hidden>> }

ToInput(shape, dev) ==
  Input(shape, dev, IF Len(shape) = 3 THEN [i \in 1..shape[2] |-> "a"] ELSE <<"a">>)

UsedSink == [out |-> Tensor(<<1, 1, 4>>, <<Earlier>>), att_null |-> FALSE,
             att |-> Tensor(<<1, 2, 1, 1>>, <<Earlier>>)]

ArgsGuardOf(hidden) ==
  { MakeArgs(type, ToInput(ks, dev[1]), ToInput(vs, dev[2]), ToInput(qs, 0), "m0",
             UsedSink, m, f) :
      type \in {"context", "self", "cross"},
      ks \in Shapes(hidden), vs \in Shapes(hidden), qs \in Shapes(hidden),
      dev \in {<<0, 0>>, <<1, 0>>, <<0, 1>>}, m \in {CacheKeys}, f \in PlainFlags }

ArgsGuard == ArgsGuardOf(4) \cup ArgsGuardOf(5)

\* the calls of concurrent decoder threads that share one cache: self steps of
\* one token, some with an unknown attn_type or a rank-2 key
ArgsThreads ==
  { MakeArgs(tk[1], ToInput(tk[2], 0), q, q, "m0", s, CacheKeys, f) :
      tk \in { <<"self", <<1, 1, 4>> >>, <<"cross", <<1, 1, 4>> >>, <<"self", <<1, 4>> >> },
      q \in {Source(1, 1, 4, 0, "a")},
      s \in { x \in Sinks : x.out = NullT /\ x.att_null }, f \in PlainFlags }

\* calls under every combination of the four flags, in both modes, with and
\* without a cache, into an output tensor that holds an earlier result; the
\* weights of a layer that keeps a cache are stored untransposed
ArgsFlags ==
  { a \in { MakeArgs(type, Source(1, 1, 4, 0, "a"), Source(1, 1, 4, 0, "a"), q,
                      "m0", UsedSink, m, f) :
              type \in {"context", "self"},
              q \in { Source(1, n, 4, 0, "a") : n \in 1..MaxQ },
              m \in {{}, CacheKeys}, f \in Flags } :
      a.keys # {} => ~a.is_trans_weight }

\* decoder layers that run self and cross steps over one cache map, which
\* holds the four keys, one pair of them, or none
ArgsMixed ==
  { MakeArgs(type, Source(1, 1, 4, 0, c), Source(1, 1, 4, 0, c),
             Source(1, 1, 4, 0, c), "m0", s, m, f) :
      type \in {"context", "self"}, c \in Tokens,
      s \in { x \in Sinks : x.out = NullT },
      m \in {{}, CacheKeys, {"memory_keys", "memory_values"},
             {"self_keys", "self_values"}},
      f \in PlainFlags }

\* threads that call without a cache: valid cross steps, an unknown attn_type,
\* a rank-2 key
ArgsLock ==
  { MakeArgs(tk[1], ToInput(tk[2], 0), q, q, "m0", s, {}, f) :
      tk \in { <<"context", <<1, 1, 4>> >>, <<"cross", <<1, 1, 4>> >>,
               <<"context", <<1, 4>> >> },
      q \in {Source(1, 1, 4, 0, "a")},
      s \in { x \in Sinks : x.out = NullT }, f \in PlainFlags }

\* the self cache grows with every self call: calls stop at MaxSeq positions
CachedLen(a, c) ==
  LET lens == { c[k].shape[3] : k \in { x \in {"self_keys", "self_values"} : not_none(a, c, x) } }
  IN IF lens = {} THEN 0 ELSE CHOOSE n \in lens : \A m \in lens : n >= m

Admissible(a, c) ==
  a.attn_type = "self" => CachedLen(a, c) + Len(a.query.data) <= MaxSeq

-----------------------------------------------------------------------------
(* State machine *)

\* pre: the cache when the lock was taken; ub: a null pointer was dereferenced
NoLoc == [pre |-> [k \in CacheKeys |-> NullT], q |-> NullT, k |-> NullT, v |-> NullT,
          ub |-> FALSE]

NoLast == [status |-> "none", stage |-> "none", thread |-> 0, args |-> NoArgs,
           pre |-> NoLoc.pre, q |-> NullT, k |-> NullT, v |-> NullT, ub |-> FALSE]

Init ==
  /\ lock = 0
  /\ pc = [t \in Threads |-> "idle"]
  /\ args = [t \in Threads |-> NoArgs]
  /\ loc = [t \in Threads |-> NoLoc]
  /\ cache = [k \in CacheKeys |-> NullT]
  /\ output = [t \in Threads |-> NullT]
  /\ att_score = [t \in Threads |-> NullT]
  /\ heap = {}
  /\ last = NoLast

\* The process has left defined behaviour: a null dereference ended it
\* ("crashed"), or a call ran on through one and returned ("undefined").
\* Nothing is said about what follows.
Halted == \E t \in Threads : pc[t] \in {"crashed", "undefined"}

\* operator() is entered with its arguments and blocks on the lock_guard of
\* line 46
Call(t, A) ==
  /\ ~Halted
  /\ pc[t] = "idle"
  /\ \E a \in A :
       /\ Admissible(a, cache)
       /\ args' = [args EXCEPT ![t] = a]
       /\ output' = [output EXCEPT ![t] = a.out]
       /\ att_score' = [att_score EXCEPT ![t] = a.att]
  /\ pc' = [pc EXCEPT ![t] = "wait"]
  /\ UNCHANGED <<lock, loc, cache, heap, last>>

\* mutant: the lock_guard is missing, nothing waits
LockFree_NoGuard(t) == TRUE

\* std::lock_guard<std::mutex> g(mutex_)
LockFree(t) == lock = 0

Acquire(t) ==
  /\ ~Halted
  /\ pc[t] = "wait"
  /\ LockFree(t)
  /\ lock' = t
  /\ loc' = [loc EXCEPT ![t] = [NoLoc EXCEPT !.pre = cache]]
  /\ pc' = [pc EXCEPT ![t] = "guard"]
  /\ last' = NoLast
  /\ UNCHANGED <<args, cache, output, att_score, heap>>

\* mutant: the mutex stays locked when the call ends
Unlock_Held(t) == lock

\* the scope of g ends, by return or by an exception unwinding the stack
Unlock(t) == IF lock = t THEN 0 ELSE lock

Record(t, status, stage, l) ==
  [status |-> status, stage |-> stage, thread |-> t, args |-> args[t],
   pre |-> l.pre, q |-> l.q, k |-> l.k, v |-> l.v, ub |-> l.ub]

Exit(t, status, stage, l) ==
  /\ lock' = Unlock(t)
  /\ pc' = [pc EXCEPT ![t] = IF l.ub THEN "undefined" ELSE "done"]
  /\ args' = [args EXCEPT ![t] = NoArgs]
  /\ loc' = [loc EXCEPT ![t] = NoLoc]
  /\ last' = Record(t, status, stage, l)

\* control is back in the caller, which takes output and att_score with it
Return(t) ==
  /\ ~Halted
  /\ pc[t] = "done"
  /\ pc' = [pc EXCEPT ![t] = "idle"]
  /\ output' = [output EXCEPT ![t] = NullT]
  /\ att_score' = [att_score EXCEPT ![t] = NullT]
  /\ last' = IF last.thread = t THEN NoLast ELSE last
  /\ UNCHANGED <<lock, args, loc, cache, heap>>

Crash(t, stage, l) ==
  /\ pc' = [pc EXCEPT ![t] = "crashed"]
  /\ last' = Record(t, "crash", stage, l)
  /\ UNCHANGED <<lock, args, loc>>

\* lines 48-127: the checks before any compute
Guard(t) ==
  /\ ~Halted
  /\ pc[t] = "guard"
  /\ LET g == GuardOutcome(args[t])
     IN IF g = "ok"
          THEN /\ pc' = [pc EXCEPT ![t] = "project"]
               /\ UNCHANGED <<lock, args, loc, last>>
          ELSE Exit(t, g, "guard", loc[t])
  /\ UNCHANGED <<cache, output, att_score, heap>>

ProjectStage(a, c, n, ub) ==
  IF a.attn_type = "context" THEN ContextProject(a, c, n, ub)
                             ELSE SelfProject(a, c, n, ub)

ProjectFails(a, c) ==
  IF a.attn_type = "context" THEN ContextFails(a, c) ELSE SelfFails(a, c)

\* lines 129-297: Q, K, V and the cache writes
Project(t) ==
  /\ ~Halted
  /\ pc[t] = "project"
  /\ \E n \in ProjectFails(args[t], cache) : \E ub \in {"crash", "wild"} :
       LET r == ProjectStage(args[t], cache, n, ub)
           l == [loc[t] EXCEPT !.q = r.q, !.k = r.k, !.v = r.v, !.ub = r.ub]
       IN /\ cache' = r.cache
          /\ heap' = heap \cup r.new
          /\ IF r.status = "ok"
               THEN /\ pc' = [pc EXCEPT ![t] = "score"]
                    /\ loc' = [loc EXCEPT ![t] = l]
                    /\ UNCHANGED <<lock, args, last>>
             ELSE IF r.status = "crash" THEN Crash(t, "project", l)
             ELSE Exit(t, r.status, "project", l)
  /\ UNCHANGED <<output, att_score>>

\* lines 313-407: scores, softmax, context, output projection and fusion
Score(t) ==
  /\ ~Halted
  /\ pc[t] = "score"
  /\ \E n \in ScoreFails(args[t]) :
       LET r == ScoreStage(args[t], loc[t], output[t], att_score[t], n)
       IN /\ output' = [output EXCEPT ![t] = r.output]
          /\ att_score' = [att_score EXCEPT ![t] = r.att]
          /\ heap' = heap \cup r.new
          /\ Exit(t, r.status, "score", loc[t])
  /\ UNCHANGED cache

Step(t, A) ==
  \/ Call(t, A)
  \/ Acquire(t)
  \/ Guard(t)
  \/ Project(t)
  \/ Score(t)
  \/ Return(t)

NextSelf == Step(1, ArgsSelf)

SpecSelf == Init /\ [][NextSelf]_vars

NextContext == Step(1, ArgsContext)

SpecContext == Init /\ [][NextContext]_vars

NextGuard == Step(1, ArgsGuard)

SpecGuard == Init /\ [][NextGuard]_vars

NextThreads == \E t \in Threads : Step(t, ArgsThreads)

SpecThreads == Init /\ [][NextThreads]_vars

NextFlags == Step(1, ArgsFlags)

SpecFlags == Init /\ [][NextFlags]_vars

NextMixed == Step(1, ArgsMixed)

SpecMixed == Init /\ [][NextMixed]_vars

NextLock == \E t \in Threads : Step(t, ArgsLock)

\* A call that holds the lock runs to its end (the pipeline is sequential and
\* cannot be cancelled); the scheduler is fair to a thread blocked on the mutex
\* that finds it free again and again.
FairLock ==
  \A t \in Threads :
    /\ WF_vars(Guard(t) \/ Project(t) \/ Score(t))
    /\ SF_vars(Acquire(t))

SpecLock == Init /\ [][NextLock]_vars /\ FairLock

-----------------------------------------------------------------------------
(* Properties *)

\* between lock acquisition and return
InCall(t) == pc[t] \in {"guard", "project", "score"}

Quiescent == \A t \in Threads : ~InCall(t)

Ended == last.status # "none"

Returned == last.status = "ok"

\* the tensors the call that ended last was given as output and att_score
LastOutput == output[last.thread]
LastAtt == att_score[last.thread]

MapLive(k) == k \in last.args.keys /\ last.pre[k].live

\* C1: at most one call is between lock acquisition and return; it holds the
\* lock, and until its own cache writes the cache is as it found it: no other
\* call reads or writes the cache, output or att_score in between.
C1_MutualExclusion ==
  /\ \A t1, t2 \in Threads : InCall(t1) /\ InCall(t2) => t1 = t2
  /\ \A t \in Threads : InCall(t) => lock = t
  /\ \A t \in Threads : pc[t] \in {"guard", "project"} => cache = loc[t].pre

C1_Witness ==
  \E t1, t2 \in Threads :
    /\ t1 # t2
    /\ pc[t1] = "score" /\ pc[t2] = "wait"
    /\ loc[t1].pre["self_keys"].live

\* C2: a successful self call whose map carries self_keys and self_values, both
\* of prior length L (0 when null), leaves both live with length L + Q and
\* their first L positions as they were.
PriorLen(k) == IF last.pre[k].live THEN last.pre[k].shape[3] ELSE 0

C2_Case ==
  /\ Returned
  /\ last.args.attn_type = "self"
  /\ {"self_keys", "self_values"} \subseteq last.args.keys
  /\ PriorLen("self_keys") = PriorLen("self_values")

Grown(k) ==
  LET L == PriorLen(k)
      Q == last.args.query.shape[2]
  IN /\ cache[k].live
     /\ cache[k].shape[3] = L + Q
     /\ Len(cache[k].data) = L + Q
     /\ SubSeq(cache[k].data, 1, L) = last.pre[k].data

C2_SelfCacheGrowth == C2_Case => Grown("self_keys") /\ Grown("self_values")

C2_Witness ==
  /\ C2_Case
  /\ PriorLen("self_keys") >= 1
  /\ cache["self_keys"].data[1] # cache["self_keys"].data[2]

\* C3: on a context call with a live memory pair, K and V are the cache
\* tensors, the cache is not written, and output and att_score are what the
\* call produces for any other contents of key_tensor and value_tensor.
C3_Case ==
  /\ Returned
  /\ last.args.attn_type = "context"
  /\ MapLive("memory_keys") /\ MapLive("memory_values")

OtherKV ==
  { [last.args EXCEPT !.key = Source(1, last.args.key.shape[2], 4, 0, ck),
                      !.value = Source(1, last.args.value.shape[2], 4, 0, cv)] :
      ck \in Tokens, cv \in Tokens }

C3_HitIgnoresKV ==
  C3_Case =>
    /\ last.k = last.pre["memory_keys"]
    /\ last.v = last.pre["memory_values"]
    /\ cache = last.pre
    /\ \A a \in OtherKV :
         LET p == ContextProject(a, last.pre, Len(ContextFillOps), "wild")
             r == ScoreStage(a, p, a.out, a.att, ScoreDone)
         IN /\ p.status = "ok"
            /\ r.output = LastOutput
            /\ r.att = LastAtt

C3_Witness ==
  /\ C3_Case
  /\ ~last.args.att_null
  /\ last.pre["memory_keys"] # ContextKV(last.args, last.args.key, "k_weight", "k_bias")
  /\ last.pre["memory_keys"].data[1] # Unwritten

\* C4 (as claimed): a successful context call with a non-empty map and no live
\* memory pair leaves memory_keys and memory_values live, shaped [B, H, K, D],
\* holding the projections of key and value that were scored.
C4_Case ==
  /\ Returned
  /\ last.args.attn_type = "context"
  /\ last.args.keys # {}
  /\ ~(MapLive("memory_keys") /\ MapLive("memory_values"))

C4_ContextCacheFill ==
  C4_Case =>
    /\ cache["memory_keys"] = ContextKV(last.args, last.args.key, "k_weight", "k_bias")
    /\ cache["memory_values"] = ContextKV(last.args, last.args.value, "v_weight", "v_bias")
    /\ last.k = cache["memory_keys"]
    /\ last.v = cache["memory_values"]

\* C5 (as claimed): a call whose map has exactly one of memory_keys and
\* memory_values live is rejected: the cache is as before and no output is
\* produced.
C5_Case == Ended /\ (MapLive("memory_keys") # MapLive("memory_values"))

C5_UnpairedRejected ==
  C5_Case =>
    /\ last.status = "InvariantViolation"
    /\ cache = last.pre
    /\ LastOutput = last.args.out

\* C6 (as claimed): between calls no handle allocated for q_ptr, k_ptr or v_ptr
\* is outstanding.
C6_NoHandleOutlivesCall == Quiescent => heap \cap {"q_ptr", "k_ptr", "v_ptr"} = {}

\* C7 (as claimed): between calls no call-scoped att_score is outstanding,
\* whatever way the calls ended; a caller's att_score is left populated.
C7_AttScoreOwnership ==
  /\ Quiescent => "att_score" \notin heap
  /\ Returned /\ ~last.args.att_null =>
       LastAtt.live /\ LastAtt.data = Softmaxed(last.args, last)

\* C8: a call whose inputs fail a guard check (a rank other than 3, batch sizes
\* of key and value that differ, an unknown attn_type, in context mode a key or
\* value on another device than the query) ends in the guard with a failure,
\* with the cache, output and att_score as they were given.
BadRank(a) == Len(a.key.shape) # 3 \/ Len(a.value.shape) # 3 \/ Len(a.query.shape) # 3

GuardViolation(a) ==
  \/ BadRank(a)
  \/ a.key.shape[1] # a.value.shape[1]
  \/ a.attn_type \notin {"self", "context"}
  \/ a.attn_type = "context" /\ (a.key.dev # a.query.dev \/ a.value.dev # a.query.dev)

C8_GuardPublishesNothing ==
  Ended /\ GuardViolation(last.args) =>
    /\ last.stage = "guard"
    /\ last.status \in {"EnforceNotMet", "Throw"}
    /\ cache = last.pre
    /\ LastOutput = last.args.out
    /\ LastAtt = last.args.att

C8_Witness ==
  /\ Ended /\ GuardViolation(last.args) /\ ~BadRank(last.args)
  /\ last.args.attn_type = "context"
  /\ last.args.key.shape[1] # last.args.value.shape[1]
  /\ cache["memory_keys"].live /\ cache["self_keys"].live

\* C9 (as claimed): a call that reaches the projection stage has
\* num_attention_heads * size_per_head = hidden.
C9_HeadsDivideHidden ==
  \A t \in Threads : pc[t] \in {"project", "score"} =>
    num_attention_heads_ * size_per_head(args[t]) = hidden_size(args[t])

\* C10 (as claimed): a call whose query, key and value batch sizes do not all
\* agree does not get past the guard.
C10_BatchSizesAgree ==
  \A t \in Threads : pc[t] \in {"project", "score"} =>
    /\ args[t].query.shape[1] = args[t].key.shape[1]
    /\ args[t].query.shape[1] = args[t].value.shape[1]

\* C11: on a successful call every output row is the result of exactly one
\* fusion applied to the projected row: AddBias alone when post_add_input and
\* post_layernorm are false, AddBiasLayerNorm with the query row when only
\* post_layernorm is true, AddInputBias with the query row (no LayerNorm)
\* whenever post_add_input is true, whatever post_layernorm is.
C11_FusionSelection ==
  Returned =>
    /\ Len(LastOutput.data) = last.args.query.shape[2]
    /\ \A i \in 1..Len(LastOutput.data) :
         LET o == LastOutput.data[i]
             d == Dense(last.args, last)[i]
             x == last.args.query.data[i]
         IN /\ d[1] = "MM"
            /\ IF last.args.post_add_input THEN o = <<"AIB", x, d>>
               ELSE IF last.args.post_layernorm THEN o = <<"ABLN", x, d>>
               ELSE o = <<"AB", d>>

C11_Witness ==
  /\ Returned
  /\ last.args.post_add_input /\ last.args.post_layernorm
  /\ last.args.pre_layernorm
  /\ LastOutput.data[1][1] = "AIB"

\* C12: a successful self call of Q tokens on a self cache that earlier calls
\* built from the tokens T gives the output rows that one call on T followed
\* by the Q tokens, without a cache, gives for its last Q tokens, and leaves in
\* self_keys and self_values the K and V of that one call.
OneCall(T) ==
  LET q == last.args.query
      x == Input(<<q.shape[1], Len(T) + q.shape[2], q.shape[3]>>, q.dev, T \o q.data)
  IN [last.args EXCEPT !.query = x, !.key = x, !.value = x, !.keys = {},
                       !.out = NullT, !.att = NullT]

OneProject(T) == SelfProject(OneCall(T), NoLoc.pre, SelfDone, "wild")

OneOutput(T) == ScoreStage(OneCall(T), OneProject(T), NullT, NullT, ScoreDone).output

\* the cache the call found holds the K and V of the tokens T
ChainOf(T) ==
  /\ last.pre["self_keys"].data = SubSeq(OneProject(T).k.data, 1, Len(T))
  /\ last.pre["self_values"].data = SubSeq(OneProject(T).v.data, 1, Len(T))

C12_Case ==
  /\ Returned
  /\ last.args.attn_type = "self"
  /\ {"self_keys", "self_values"} \subseteq last.args.keys
  /\ last.pre["self_keys"].live = last.pre["self_values"].live

C12_ChunkingEquivalence ==
  C12_Case =>
    \A T \in [1..PriorLen("self_keys") -> Tokens] :
      ChainOf(T) =>
        /\ LastOutput.data =
             SubSeq(OneOutput(T).data, Len(T) + 1, Len(T) + last.args.query.shape[2])
        /\ cache["self_keys"] = OneProject(T).k
        /\ cache["self_values"] = OneProject(T).v

C12_Witness ==
  /\ C12_Case
  /\ \E T \in [1..PriorLen("self_keys") -> Tokens] :
       /\ Len(T) >= 1
       /\ ChainOf(T)
       /\ T[1] # last.args.query.data[1]
       /\ LastOutput.data = SubSeq(OneOutput(T).data, Len(T) + 1, Len(OneOutput(T).data))

\* C13: after a successful call, in either mode, under any flags and on any
\* cache, output is live with the shape of query_tensor, one row per query
\* position, whatever shape it had before.
C13_ShapeClosure ==
  Returned =>
    /\ LastOutput.live
    /\ LastOutput.shape = last.args.query.shape
    /\ Len(LastOutput.data) = last.args.query.shape[2]

C13_Witness ==
  /\ Returned
  /\ last.args.out.live /\ last.args.out.shape # last.args.query.shape
  /\ last.args.attn_type = "context" /\ MapLive("memory_keys") /\ MapLive("self_keys")
  /\ last.args.post_add_input
  /\ LastOutput.shape = last.args.query.shape

\* C14 (as claimed): after a successful call with an att_score sink, att_score
\* is [B, H, Q, K_eff], K_eff being key_tensor's length on a context miss, the
\* length of memory_keys on a context hit, Q in self mode without a live
\* self_keys and the cached length plus Q with one; and the K and V that the
\* scoring stage is given have the same sequence length.
KEff ==
  IF last.args.attn_type = "context"
    THEN IF MapLive("memory_keys") /\ MapLive("memory_values")
           THEN last.pre["memory_keys"].shape[3]
           ELSE last.args.key.shape[2]
    ELSE IF MapLive("self_keys")
           THEN last.pre["self_keys"].shape[3] + last.args.query.shape[2]
           ELSE last.args.query.shape[2]

C14_AttShape ==
  Returned /\ ~last.ub /\ ~last.args.att_null =>
    /\ LastAtt.live
    /\ LastAtt.shape = <<last.args.query.shape[1], num_attention_heads_,
                         last.args.query.shape[2], KEff>>

C14_SameLength ==
  \A t \in Threads :
    pc[t] = "score" /\ ~loc[t].ub => SeqLen(loc[t].k.shape) = SeqLen(loc[t].v.shape)

C14_AttScoreShape == C14_AttShape /\ C14_SameLength

\* C15 (as claimed): between calls, whatever way the calls before ended,
\* memory_keys is null iff memory_values is null.
C15_MemoryPair ==
  Quiescent /\ ~Halted =>
    (is_null(cache["memory_keys"]) <=> is_null(cache["memory_values"]))

\* C16: a context call on a live memory pair, however it ends, leaves both
\* tensors as they were; when it succeeds, the same call made again on the
\* cache it left reads the same K and V and gives the same output and
\* att_score.
C16_Case ==
  /\ Ended
  /\ last.args.attn_type = "context"
  /\ MapLive("memory_keys") /\ MapLive("memory_values")

C16_HitReadOnly ==
  C16_Case =>
    /\ cache["memory_keys"] = last.pre["memory_keys"]
    /\ cache["memory_values"] = last.pre["memory_values"]
    /\ Returned =>
         LET p == ContextProject(last.args, cache, Len(ContextFillOps), "wild")
             r == ScoreStage(last.args, p, LastOutput, LastAtt, ScoreDone)
         IN /\ p.k = last.k /\ p.v = last.v
            /\ p.cache = cache
            /\ r.output = LastOutput
            /\ r.att = LastAtt

C16_Witness ==
  /\ C16_Case /\ Returned
  /\ last.pre["memory_keys"].data[1] # Unwritten
  /\ last.pre["memory_keys"].shape[3] # last.args.key.shape[2]
  /\ LastOutput.live

\* C17 (as claimed): a successful self call with a non-empty map leaves
\* self_keys and self_values live, shaped [B, H, K_total, D], holding the K and
\* V that were scored; with an empty map the cache is not touched.
C17_SelfWriteback ==
  Returned /\ last.args.attn_type = "self" =>
    IF last.args.keys = {} THEN cache = last.pre
    ELSE /\ cache["self_keys"].live /\ cache["self_values"].live
         /\ cache["self_keys"] = last.k
         /\ cache["self_values"] = last.v
         /\ cache["self_keys"].shape =
              <<last.args.query.shape[1], num_attention_heads_,
                SeqLen(last.k.shape), size_per_head(last.args)>>

\* C18 (as claimed): after a call that a kernel or allocation failure ended, at
\* most one cache tensor, the one the failing kernel was writing, differs from
\* what it was before the call.
Touched == { k \in CacheKeys : cache[k] # last.pre[k] }

C18_NoHalfMutation ==
  Ended /\ last.status = "KernelFailure" /\ ~last.ub => Cardinality(Touched) <= 1

\* C20: a context call, however it ends, leaves self_keys and self_values as
\* they were, and a self call leaves memory_keys and memory_values as they
\* were.
Foreign ==
  IF last.args.attn_type = "context" THEN {"self_keys", "self_values"}
                                     ELSE {"memory_keys", "memory_values"}

C20_CrossModeFrame ==
  Ended => \A k \in Foreign : cache[k] = last.pre[k]

C20_Witness ==
  /\ Ended /\ last.stage = "project"
  /\ Touched # {}
  /\ \A k \in Foreign : cache[k].live /\ cache[k].data[1] # Unwritten

====
